---- MODULE Spec2Model ----
(***************************************************************************)
(* Batch spectrogram creator: main.py drives one Spectrogram object over   *)
(* the files of a path; spectrogram.py holds the object (create, save_png  *)
(* and the axis helpers); metadata_parser.py formats ffprobe's stream      *)
(* record.  Text is modelled as sequences of one-character strings, so     *)
(* that formatting, str.replace and pathlib's suffix rule are computed.    *)
(* Times are exact rationals: a tick position on the time axis is a number *)
(* of samples over the sampling rate, a position on the frequency axis is  *)
(* a number of half-Hertz.                                                 *)
(***************************************************************************)
EXTENDS Integers, Sequences, FiniteSets, TLC

\* ------------------------------------------------------------------ bounds
\* Longest directory listing the batch run is given.
MaxFiles == 3
\* Longest sequence of create / save_png calls a client of the class makes.
MaxCalls == 4

\* -------------------------------------------------------------------- text
DigitChars == <<"0", "1", "2", "3", "4", "5", "6", "7", "8", "9">>
UpperChars == <<"A", "B", "C", "D", "E", "F", "G", "H", "I", "J", "K", "L", "M",
                "N", "O", "P", "Q", "R", "S", "T", "U", "V", "W", "X", "Y", "Z">>
LowerChars == <<"a", "b", "c", "d", "e", "f", "g", "h", "i", "j", "k", "l", "m",
                "n", "o", "p", "q", "r", "s", "t", "u", "v", "w", "x", "y", "z">>

\* str(n) of a non-negative int, also f"{f:.0f}" of a whole float.
RECURSIVE Str(_)
Str(n) ==
    IF n < 10 THEN <<DigitChars[n + 1]>>
    ELSE Str(n \div 10) \o <<DigitChars[(n % 10) + 1]>>

\* f"{n:02d}" with no padding at all (the bug of writing {n:d}).
Fmt02dUnpadded(n) == Str(n)

\* f"{n:02d}": at least two digits, zero-filled on the left.
Fmt02d(n) ==
    IF n < 10 THEN <<"0">> \o Str(n) ELSE Str(n)

\* str.replace(old, new) for one-character old and new: every occurrence.
StrReplace(s, old, new) ==
    [k \in 1..Len(s) |-> IF s[k] = old THEN new ELSE s[k]]

\* str.lower() of one character.
LowerChar(c) ==
    IF \E k \in 1..26 : UpperChars[k] = c
    THEN LowerChars[CHOOSE k \in 1..26 : UpperChars[k] = c]
    ELSE c

\* str.lower().
StrLower(s) == [k \in 1..Len(s) |-> LowerChar(s[k])]

\* Index of the last occurrence of character c in s, 0 when there is none
\* (str.rfind, one-based).
RFind(s, c) ==
    IF \E k \in 1..Len(s) : s[k] = c
    THEN CHOOSE k \in 1..Len(s) : s[k] = c /\ \A j \in (k + 1)..Len(s) : s[j] # c
    ELSE 0

\* int(s) of a string of decimal digits.
RECURSIVE ParseInt(_)
ParseInt(s) ==
    IF Len(s) = 0 THEN 0
    ELSE 10 * ParseInt(SubSeq(s, 1, Len(s) - 1))
         + ((CHOOSE k \in 1..10 : DigitChars[k] = s[Len(s)]) - 1)

\* ------------------------------------------------------------------- paths
\* pathlib: the final component of a path.
PathName(p) == SubSeq(p, RFind(p, "/") + 1, Len(p))

\* pathlib: the parent directory joined with a child name (iterdir's items).
PathJoin(dir, name) == dir \o <<"/">> \o name

\* pathlib's suffix: from the last dot of the name, unless that dot is the
\* name's first or last character.
PathSuffix(p) ==
    LET name == PathName(p)
        k == RFind(name, ".")
    IN  IF 1 < k /\ k < Len(name) THEN SubSeq(name, k, Len(name)) ELSE <<>>

\* The extensions main accepts.
AudioSuffixes ==
    { <<".", "m", "4", "a">>, <<".", "m", "p", "3">>,
      <<".", "f", "l", "a", "c">>, <<".", "w", "a", "v">> }

\* main's filter: file.suffix.lower() in (".m4a", ".mp3", ".flac", ".wav").
IsAudio(p) == StrLower(PathSuffix(p)) \in AudioSuffixes

\* ------------------------------------------------------- the files at hand
DirMusic == <<"/", "m", "u", "s", "i", "c">>
DirDotted == <<"/", "a", ".", "d">>
NameTrack == <<"t", "r", "a", "c", "k", ".", "m", "p", "3">>
NameDotted == <<"a", ".", "b", ".", "m", "p", "3">>
NameUnderscored == <<"a", "_", "b", ".", "m", "p", "3">>
NameUpper == <<"x", ".", "W", "A", "V">>
NameText == <<"n", ".", "t", "x", "t">>
NameCorrupt == <<"b", "a", "d", ".", "f", "l", "a", "c">>
NameHidden == <<".", "m", "p", "3">>
NameSubdir == <<"s", "u", "b", ".", "w", "a", "v">>
PathNowhere == <<"/", "n", "o", "p", "e">>
OutPng == <<"o", ".", "p", "n", "g">>

Dirs == {DirMusic, DirDotted}
\* Directory entries that are regular files, and the one that is a directory.
FileNames ==
    {NameTrack, NameDotted, NameUnderscored, NameUpper, NameText, NameCorrupt,
     NameHidden}
EntryNames == FileNames \cup {NameSubdir}

\* librosa.load(audio_file, sr=None): the samples and the native sampling
\* rate of the file, or an exception for a file it cannot decode.  The
\* content of each file is fixed by its name.
Load(p) ==
    LET name == PathName(p) IN
    CASE name = NameTrack -> [ok |-> TRUE, len |-> 75 * 44100, sr |-> 44100]
      [] name = NameDotted -> [ok |-> TRUE, len |-> 3725 * 11025, sr |-> 11025]
      [] name = NameUnderscored -> [ok |-> TRUE, len |-> 60 * 48000 + 1, sr |-> 48000]
      [] name = NameUpper -> [ok |-> TRUE, len |-> 0, sr |-> 8000]
      [] OTHER -> [ok |-> FALSE, len |-> 0, sr |-> 0]

\* ------------------------------------------------------ Spectrogram object
\* Spectrogram.__init__: empty data.
NewSpectrogram ==
    [audio_file |-> [kind |-> "str", s |-> <<>>],
     audio |-> [of |-> <<>>, len |-> 0],
     sampling_rate |-> 0,
     spectrogram |-> [of |-> <<>>],
     db_spectrogram |-> [of |-> <<>>]]

\* Spectrogram.create: the path is stored first, then the file is decoded;
\* a decoding error leaves the other fields as they were.  The arrays are
\* tagged with the file they were computed from.
CreateResult(o, audio_file) ==
    LET r == Load(audio_file.s) IN
    IF ~r.ok
    THEN [obj |-> [o EXCEPT !.audio_file = audio_file], err |-> "LoadError"]
    ELSE [obj |-> [audio_file |-> audio_file,
                   audio |-> [of |-> audio_file.s, len |-> r.len],
                   sampling_rate |-> r.sr,
                   spectrogram |-> [of |-> audio_file.s],
                   db_spectrogram |-> [of |-> audio_file.s]],
          err |-> ""]

\* ------------------------------------------------------ the pyplot figure
\* plt.figure(): a fresh current figure; also the figure after plt.clf().
EmptyFig ==
    [suptitle |-> <<>>, title |-> "", xticks |-> <<>>, xlabels |-> <<>>,
     yticks |-> <<>>, ylabels |-> <<>>, image |-> <<>>,
     extent |-> [len |-> 0, sr |-> 0]]

\* __set_titles__: the suptitle quotes the path; the title's {1}..{4} are
\* the literals 1..4.
SetTitles(f, o) ==
    [f EXCEPT !.suptitle = <<"'">> \o o.audio_file.s
                           \o <<"'", " ", "s", "p", "e", "c", "t", "r", "o", "g", "r", "a", "m">>,
              !.title = "Encoding: 1, Bitrate: 2, Sampling Rate: 3, Channels: 4"]

\* len(np.arange(0, num/den, step)) for num >= 0: ceil(num / (den * step)).
ArangeLen(num, den, step) == (num + den * step - 1) \div (den * step)

\* The time ticks with the end of the range included (arange taken as
\* closed): the duration is listed twice when it is a whole number of minutes.
XTicksInclusive(len, sr) ==
    [k \in 1..((len \div (60 * sr)) + 1) |-> 60 * (k - 1) * sr] \o <<len>>

\* The time tick positions, in samples (seconds times the sampling rate):
\* np.arange(0, len/sr, 60).tolist() + [len/sr].
XTicks(len, sr) ==
    [k \in 1..ArangeLen(len, sr, 60) |-> 60 * (k - 1) * sr] \o <<len>>

\* f"{int(t/60):02d}:{int(t%60):02d}" for the tick at t = num/sr seconds.
XLabel(num, sr) ==
    Fmt02d(num \div (60 * sr)) \o <<":">> \o Fmt02d((num \div sr) % 60)

\* The frequency tick positions, in half-Hertz:
\* np.arange(0, sr/2, 5000).tolist() + [sr/2].
YTicks(sr) ==
    [k \in 1..ArangeLen(sr, 2, 5000) |-> 2 * 5000 * (k - 1)] \o <<sr>>

\* The last frequency label with the Nyquist frequency rounded to the nearest
\* kHz instead of truncated.
YLastLabelRounded(sr) == Str((sr + 1000) \div 2000)

\* str(int(sr / 2000)): the Nyquist frequency in kHz, truncated.
YLastLabel(sr) == Str(sr \div 2000)

\* The frequency labels:
\* [f"{f:.0f}" for f in np.arange(0, sr/2000, 5)] + [str(int(sr/2000))].
YLabels(sr) ==
    [k \in 1..ArangeLen(sr, 2000, 5) |-> Str(5 * (k - 1))] \o <<YLastLabel(sr)>>

\* __set_x_axis__ on a figure: the figure afterwards and the exception
\* raised.  len(self.audio) / self.sampling_rate divides two Python numbers,
\* so a sampling rate of 0 raises ZeroDivisionError before plt.xticks is
\* called.
SetXAxis(f, o) ==
    IF o.sampling_rate = 0 THEN [fig |-> f, err |-> "ZeroDivisionError"]
    ELSE
      LET ticks == XTicks(o.audio.len, o.sampling_rate) IN
      [fig |-> [f EXCEPT !.xticks = ticks,
                         !.xlabels = [k \in 1..Len(ticks) |->
                                        XLabel(ticks[k], o.sampling_rate)]],
       err |-> ""]

\* __set_y_axis__ on a figure.
SetYAxis(f, o) ==
    [f EXCEPT !.yticks = YTicks(o.sampling_rate),
              !.ylabels = YLabels(o.sampling_rate)]

\* __set_graphics__: the image and its extent (0, len/sr, 0, sr/2).
SetGraphics(f, o) ==
    [f EXCEPT !.image = o.db_spectrogram.of,
              !.extent = [len |-> o.audio.len, sr |-> o.sampling_rate]]

\* The default file name of save_png for a str path:
\* f"{audio_file.replace('.', '_')}_spectrogram.png".
DefaultPngName(s) ==
    StrReplace(s, ".", "_")
    \o <<"_", "s", "p", "e", "c", "t", "r", "o", "g", "r", "a", "m", ".", "p", "n", "g">>

\* Spectrogram.save_png(filename) on object o with the files written so
\* far: the figure left as pyplot's current one, the files afterwards and
\* the exception raised, if any.  An exception of __set_x_axis__ ends the
\* call; pathlib's Path.replace(target) takes one argument, so
\* replace('.', '_') on a Path raises TypeError; a raise leaves the figure
\* as drawn so far and writes nothing.
SavePngResult(o, files, filename) ==
    LET x == SetXAxis(SetTitles(EmptyFig, o), o) IN
    IF x.err # ""
    THEN [fig |-> x.fig, png |-> files, err |-> x.err]
    ELSE
      LET f4 == SetGraphics(SetYAxis(x.fig, o), o) IN
      IF filename = <<>> /\ o.audio_file.kind = "Path"
      THEN [fig |-> f4, png |-> files, err |-> "TypeError"]
      ELSE
        LET name == IF filename # <<>> THEN filename
                    ELSE DefaultPngName(o.audio_file.s)
        IN  [fig |-> EmptyFig,
             png |-> [p \in DOMAIN files \cup {name} |->
                        IF p = name THEN f4 ELSE files[p]],
             err |-> ""]

\* ------------------------------------------------------- metadata_parser
NoneStr == <<"N", "o", "n", "e">>

\* str(media_info.get(key, None)) for ffprobe's string values.
GetStr(media_info, key) ==
    IF key \in DOMAIN media_info THEN media_info[key] ELSE NoneStr

\* 10 ** k.
RECURSIVE Pow10(_)
Pow10(k) == IF k = 0 THEN 1 ELSE 10 * Pow10(k - 1)

\* float(s) of "digits" or "digits.digits", kept exact as num/den.
ParseFloat(s) ==
    LET dot == RFind(s, ".") IN
    IF dot = 0 THEN [num |-> ParseInt(s), den |-> 1]
    ELSE [num |-> ParseInt(SubSeq(s, 1, dot - 1) \o SubSeq(s, dot + 1, Len(s))),
          den |-> Pow10(Len(s) - dot)]

\* str(n / 1000) of a non-negative int n below 10**19: true division gives a
\* float, whose repr is the shortest decimal that reads back, with at least
\* one digit after the point.
StrOfThousandths(n) ==
    LET r == n % 1000
        frac == IF r % 100 = 0 THEN Str(r \div 100)
                ELSE IF r % 10 = 0 THEN Fmt02d(r \div 10)
                ELSE IF r < 100 THEN <<"0">> \o Fmt02d(r)
                ELSE Str(r)
    IN  Str(n \div 1000) \o <<".">> \o frac

KbPerSec == <<" ", "k", "b", "/", "s">>

\* The bitrate field with floor division (int(bit_rate) // 1000).
BitrateFloorDiv(media_info) ==
    IF "bit_rate" \in DOMAIN media_info
    THEN Str(ParseInt(media_info["bit_rate"]) \div 1000) \o KbPerSec
    ELSE GetStr(media_info, "bits_per_raw_sample") \o <<" ", "b", "i", "t">>

\* __get_bitrate_or_bits_per_sample.
BitrateOrBitsPerSample(media_info) ==
    IF "bit_rate" \in DOMAIN media_info
    THEN StrOfThousandths(ParseInt(media_info["bit_rate"])) \o KbPerSec
    ELSE GetStr(media_info, "bits_per_raw_sample") \o <<" ", "b", "i", "t">>

\* __get_duration: str(int(float(d) // 60)) + ":" + str(int(float(d) % 60)),
\* d = media_info.get("duration", 0).
GetDuration(media_info) ==
    LET d == IF "duration" \in DOMAIN media_info
             THEN ParseFloat(media_info["duration"])
             ELSE [num |-> 0, den |-> 1]
    IN  Str(d.num \div (60 * d.den)) \o <<":">> \o Str((d.num \div d.den) % 60)

\* __build_file_metadata__ on the first stream.
BuildFileMetadata(media_info) ==
    GetStr(media_info, "codec_long_name") \o <<",", " ">>
    \o BitrateOrBitsPerSample(media_info) \o <<",", " ">>
    \o GetStr(media_info, "channel_layout") \o <<",", " ">>
    \o GetStr(media_info, "sample_rate") \o <<" ", "H", "z">> \o <<",", " ">>
    \o GetDuration(media_info)

\* get_metadata on ffprobe's "streams" list: json_file["streams"][0] raises
\* IndexError when the file has no stream.
GetMetadataResult(streams) ==
    IF Len(streams) = 0
    THEN [metadata |-> <<>>, err |-> "IndexError"]
    ELSE [metadata |-> BuildFileMetadata(streams[1]), err |-> ""]

\* ------------------------------------------------------------------- state
VARIABLES
    pc,         \* where main is: "start", "loop", "save", "done", "crashed";
                \* "api" / "fmt" when the classes are driven directly
    fsys,       \* what the command-line path names: kind, path, iterdir order
    file_list,  \* main's file_list
    idx,        \* position of main's for loop in file_list (one-based)
    obj,        \* the Spectrogram object
    fig,        \* pyplot's current figure
    png,        \* the files written by savefig: path -> figure drawn
    err,        \* the exception raised by the last call, "" for none
    calls,      \* calls made by a direct client of the class
    metadata    \* the last get_metadata call that returned: the streams
                \* ffprobe reported and the string returned

vars == <<pc, fsys, file_list, idx, obj, fig, png, err, calls, metadata>>

\* Directory listings: the entries of a directory in iterdir's order.
Listings ==
    UNION { { l \in [1..n -> EntryNames] :
                \A a, b \in 1..n : a # b => l[a] # l[b] } : n \in 0..MaxFiles }

\* What the path argument can name.
FsChoices ==
    { [kind |-> k, path |-> PathNowhere, entries |-> <<>>] : k \in {"missing", "special"} }
    \cup { [kind |-> "file", path |-> PathJoin(d, n), entries |-> <<>>] :
             d \in Dirs, n \in FileNames }
    \cup { [kind |-> "dir", path |-> d, entries |-> l] : d \in Dirs, l \in Listings }

NoMetadata == [streams |-> <<>>, text |-> <<>>]

NoFs == [kind |-> "missing", path |-> <<>>, entries |-> <<>>]

\* Path.is_file() of a directory entry.
EntryIsFile(name) == name \in FileNames

\* get_file_list_from_path: the file itself, the regular files of a
\* directory (not of its subdirectories), or nothing for any other path.
GetFileList(fs) ==
    IF fs.kind = "file" THEN <<fs.path>>
    ELSE IF fs.kind = "dir"
    THEN LET kept == SelectSeq(fs.entries, EntryIsFile)
         IN  [k \in 1..Len(kept) |-> PathJoin(fs.path, kept[k])]
    ELSE <<>>

\* --------------------------------------------------------------- main.py
MainInit ==
    /\ pc = "start"
    /\ fsys \in FsChoices
    /\ file_list = <<>>
    /\ idx = 0
    /\ obj = NewSpectrogram
    /\ fig = EmptyFig
    /\ png = <<>>
    /\ err = ""
    /\ calls = 0
    /\ metadata = NoMetadata

\* main, lines 65-67: the object is made and the path is listed.
Start ==
    /\ pc = "start"
    /\ file_list' = GetFileList(fsys)
    /\ idx' = 1
    /\ pc' = "loop"
    /\ UNCHANGED <<fsys, obj, fig, png, err, calls, metadata>>

\* The for loop on a file whose suffix is not accepted: next file.
LoopSkip ==
    /\ pc = "loop"
    /\ idx <= Len(file_list)
    /\ ~IsAudio(file_list[idx])
    /\ idx' = idx + 1
    /\ UNCHANGED <<pc, fsys, file_list, obj, fig, png, err, calls, metadata>>

\* spectrogram.create(file): main passes the pathlib.Path; nothing catches
\* an exception, which ends the run.
LoopCreate ==
    /\ pc = "loop"
    /\ idx <= Len(file_list)
    /\ IsAudio(file_list[idx])
    /\ LET r == CreateResult(obj, [kind |-> "Path", s |-> file_list[idx]]) IN
         /\ obj' = r.obj
         /\ err' = r.err
         /\ pc' = IF r.err = "" THEN "save" ELSE "crashed"
    /\ UNCHANGED <<fsys, file_list, idx, fig, png, calls, metadata>>

\* spectrogram.save_png(): the default file name; an exception ends the run.
LoopSavePng ==
    /\ pc = "save"
    /\ LET r == SavePngResult(obj, png, <<>>) IN
         /\ fig' = r.fig
         /\ png' = r.png
         /\ err' = r.err
         /\ pc' = IF r.err = "" THEN "loop" ELSE "crashed"
         /\ idx' = IF r.err = "" THEN idx + 1 ELSE idx
    /\ UNCHANGED <<fsys, file_list, obj, calls, metadata>>

\* The loop is over: main returns and the process exits with status 0.
Exit ==
    /\ pc = "loop"
    /\ idx > Len(file_list)
    /\ pc' = "done"
    /\ UNCHANGED <<fsys, file_list, idx, obj, fig, png, err, calls, metadata>>

Next == Start \/ LoopSkip \/ LoopCreate \/ LoopSavePng \/ Exit

Spec == MainInit /\ [][Next]_vars

\* ------------------------------------------- the Spectrogram class, driven
\* Paths a client hands to create, as str (the documented type) or as Path.
ApiPaths ==
    { PathJoin(DirMusic, NameTrack), PathJoin(DirDotted, NameDotted),
      PathJoin(DirDotted, NameUnderscored), PathJoin(DirMusic, NameCorrupt) }

ApiInit ==
    /\ pc = "api"
    /\ fsys = NoFs
    /\ file_list = <<>>
    /\ idx = 0
    /\ obj = NewSpectrogram
    /\ fig = EmptyFig
    /\ png = <<>>
    /\ err = ""
    /\ calls = 0
    /\ metadata = NoMetadata

\* create(audio_file) by a client that goes on after an exception.
ApiCreate ==
    /\ pc = "api"
    /\ calls < MaxCalls
    /\ \E p \in ApiPaths, k \in {"str", "Path"} :
         LET r == CreateResult(obj, [kind |-> k, s |-> p]) IN
           /\ obj' = r.obj
           /\ err' = r.err
    /\ calls' = calls + 1
    /\ UNCHANGED <<pc, fsys, file_list, idx, fig, png, metadata>>

\* save_png(filename), with the default name or an explicit one.
ApiSavePng ==
    /\ pc = "api"
    /\ calls < MaxCalls
    /\ \E filename \in {<<>>, OutPng} :
         LET r == SavePngResult(obj, png, filename) IN
           /\ fig' = r.fig
           /\ png' = r.png
           /\ err' = r.err
    /\ calls' = calls + 1
    /\ UNCHANGED <<pc, fsys, file_list, idx, obj, metadata>>

ApiNext == ApiCreate \/ ApiSavePng

SpecApi == ApiInit /\ [][ApiNext]_vars

\* ------------------------------- the formatting functions over their inputs
Rates == {1, 1000, 1999, 2000, 8000, 10000, 11025, 16000, 20000, 22050, 44100, 48000}
Seconds == {0, 1, 59, 60, 61, 75, 599, 600, 3725, 6000}

\* Buffer lengths at a rate: whole seconds, and a sample off a minute.
LensOf(sr) ==
    { s * sr : s \in Seconds } \cup { 1, 59 * sr + 1, 60 * sr - 1, 60 * sr + 1 }

\* The object after create has decoded a file of a given length and rate.
Loaded(audio_file, len, sr) ==
    [audio_file |-> audio_file,
     audio |-> [of |-> audio_file.s, len |-> len],
     sampling_rate |-> sr,
     spectrogram |-> [of |-> audio_file.s],
     db_spectrogram |-> [of |-> audio_file.s]]

FmtObjects ==
    {NewSpectrogram}
    \cup UNION { { Loaded([kind |-> "str", s |-> PathJoin(DirMusic, NameTrack)], len, sr) :
                     len \in LensOf(sr) } : sr \in Rates }
    \cup { Loaded([kind |-> "Path", s |-> PathJoin(DirMusic, NameTrack)], len, 44100) :
             len \in LensOf(44100) }

\* ffprobe stream records: values are strings, keys may be missing.
BitRates ==
    << <<"1", "2", "8", "0", "0", "0">>, <<"1", "2", "7", "9", "9", "9">>,
       <<"3", "2", "0", "0", "5", "0">>, <<"9", "6", "0", "0", "7">>,
       <<"9", "9", "9">>, <<"0">>, <<"1", "4", "1", "1", "2", "0", "0">> >>
Durations ==
    << <<"2", "2", "5", ".", "1", "2", "3">>, <<"6", "5">>, <<"5", "9", ".", "9", "9", "9">>,
       <<"3", "7", "2", "5", ".", "5">>, <<"0", ".", "5">>, <<"6", "0", "0">>,
       <<"6", "0", "0", "0", ".", "0", "1">> >>
CodecFlac == <<"F", "L", "A", "C">>
Stereo == <<"s", "t", "e", "r", "e", "o">>
Rate44100 == <<"4", "4", "1", "0", "0">>

MediaInfos ==
    { [codec_long_name |-> CodecFlac, bit_rate |-> BitRates[k], channel_layout |-> Stereo,
       sample_rate |-> Rate44100, duration |-> Durations[k]] : k \in 1..Len(BitRates) }
    \cup { [codec_long_name |-> CodecFlac, bits_per_raw_sample |-> w,
            channel_layout |-> Stereo, sample_rate |-> Rate44100,
            duration |-> Durations[1]] : w \in {<<"1", "6">>, <<"2", "4">>} }
    \cup { [codec_long_name |-> CodecFlac, bit_rate |-> BitRates[1]],
           [sample_rate |-> Rate44100] }

FmtInit ==
    /\ pc = "fmt"
    /\ fsys = NoFs
    /\ file_list = <<>>
    /\ idx = 0
    /\ obj \in FmtObjects
    /\ fig = EmptyFig
    /\ png = <<>>
    /\ err = ""
    /\ calls = 0
    /\ metadata = NoMetadata

\* save_png() on the object: the axes are computed from its length and rate.
FmtSavePng ==
    /\ pc = "fmt"
    /\ LET r == SavePngResult(obj, png, <<>>) IN
         /\ fig' = r.fig
         /\ png' = r.png
         /\ err' = r.err
    /\ UNCHANGED <<pc, fsys, file_list, idx, obj, calls, metadata>>

\* __set_x_axis__() alone, on pyplot's current figure.
FmtSetXAxis ==
    /\ pc = "fmt"
    /\ LET r == SetXAxis(fig, obj) IN
         /\ fig' = r.fig
         /\ err' = r.err
    /\ UNCHANGED <<pc, fsys, file_list, idx, obj, png, calls, metadata>>

\* __set_y_axis__() alone, on pyplot's current figure.
FmtSetYAxis ==
    /\ pc = "fmt"
    /\ fig' = SetYAxis(fig, obj)
    /\ err' = ""
    /\ UNCHANGED <<pc, fsys, file_list, idx, obj, png, calls, metadata>>

\* MetadataParser().get_metadata(file) on what ffprobe reports for the file.
FmtGetMetadata ==
    /\ pc = "fmt"
    /\ \E streams \in {<<>>} \cup { <<m>> : m \in MediaInfos } :
         LET r == GetMetadataResult(streams) IN
           /\ metadata' = IF r.err = "" THEN [streams |-> streams, text |-> r.metadata]
                          ELSE metadata
           /\ err' = r.err
    /\ UNCHANGED <<pc, fsys, file_list, idx, obj, fig, png, calls>>

FmtNext == FmtSavePng \/ FmtSetXAxis \/ FmtSetYAxis \/ FmtGetMetadata

SpecFmt == FmtInit /\ [][FmtNext]_vars

\* ============================================================== properties
\* Helpers of the properties below (they read text back, and model no code).
Last(s) == s[Len(s)]
IsDigits(s) == Len(s) > 0 /\ \A k \in 1..Len(s) : \E d \in 1..10 : DigitChars[d] = s[k]
NoLeadingZero(s) == Len(s) = 1 \/ s[1] # "0"
NoTrailingZero(s) == Len(s) = 1 \/ s[Len(s)] # "0"
StrictlyIncreasing(s) == \A k \in 1..(Len(s) - 1) : s[k] < s[k + 1]
EndsWith(s, t) == Len(s) >= Len(t) /\ SubSeq(s, Len(s) - Len(t) + 1, Len(s)) = t
\* The two sides of "minutes:seconds".
MinutesOf(l) == SubSeq(l, 1, RFind(l, ":") - 1)
SecondsOf(l) == SubSeq(l, RFind(l, ":") + 1, Len(l))
\* The figures at hand: the saved ones and pyplot's current one; those with
\* a time axis set, and those with a frequency axis set.
Figs == { png[p] : p \in DOMAIN png } \cup {fig}
XFigs == { F \in Figs : F.xticks # <<>> }
YFigs == { F \in Figs : F.yticks # <<>> }
\* <parent>/<stem>_<extension without dot>_spectrogram.png of a path.
ExpectedPngName(p) ==
    LET k == RFind(p, ".") IN
    SubSeq(p, 1, k - 1) \o <<"_">> \o SubSeq(p, k + 1, Len(p))
    \o <<"_", "s", "p", "e", "c", "t", "r", "o", "g", "r", "a", "m", ".", "p", "n", "g">>
\* The audio files directly inside the directory the run was given.
AudioFilesOfDir ==
    { PathJoin(fsys.path, fsys.entries[k]) : k \in
        { j \in 1..Len(fsys.entries) :
            EntryIsFile(fsys.entries[j]) /\ IsAudio(PathJoin(fsys.path, fsys.entries[j])) } }
\* The files whose spectrogram is in some written PNG.
Rendered == { png[p].image : p \in DOMAIN png }
Terminated == pc \in {"done", "crashed"}

\* C1: every save_png() step of the batch run leaves the PNG of the file at
\* <parent_dir>/<stem>_<extension without dot>_spectrogram.png, showing that
\* file's spectrogram.
C1_PngAtExpectedName ==
    [][LoopSavePng =>
         /\ ExpectedPngName(file_list[idx]) \in DOMAIN png'
         /\ png'[ExpectedPngName(file_list[idx])].image = file_list[idx]]_vars

\* C2: when the run on a directory of valid audio files and other files has
\* ended, the files rendered are exactly the directory's files with an
\* accepted extension (case-insensitive), one PNG per such file.
C2_DirRendersExactlyAudio ==
    (fsys.kind = "dir" /\ Terminated /\ \A f \in AudioFilesOfDir : Load(f).ok) =>
        /\ Rendered = AudioFilesOfDir
        /\ Cardinality(DOMAIN png) = Cardinality(AudioFilesOfDir)

\* C3: a failing file never aborts the run, and when the run is over every
\* decodable audio file of the list has been rendered.
C3_FailureSkipped ==
    /\ pc # "crashed"
    /\ pc = "done" =>
         \A k \in 1..Len(file_list) :
            (IsAudio(file_list[k]) /\ Load(file_list[k]).ok) => file_list[k] \in Rendered

\* C4: a PNG written under its default name is never replaced by the PNG of
\* another file: distinct inputs have distinct default names.
C4_NoPngOverwritten ==
    [][\A p \in DOMAIN png :
         p # OutPng => (p \in DOMAIN png' /\ png'[p].image = png[p].image)]_vars

\* C5: a run on a path that is neither a file nor a directory never ends as
\* a normal, successful run.
C5_InvalidPathIsFatal ==
    fsys.kind \in {"missing", "special"} => pc # "done"

\* C10: the object's audio_file, audio, spectrogram and db_spectrogram all
\* belong to one file with that file's sampling rate, or the object is still
\* as constructed.
C10_FieldsOfOneFile ==
    \/ obj = NewSpectrogram
    \/ /\ obj.audio.of = obj.audio_file.s
       /\ obj.spectrogram.of = obj.audio_file.s
       /\ obj.db_spectrogram.of = obj.audio_file.s
       /\ Load(obj.audio_file.s).ok
       /\ obj.sampling_rate = Load(obj.audio_file.s).sr

\* The second comma-separated field of a metadata string (the bitrate field)
\* and its last one (the duration).
FirstComma(text) == CHOOSE k \in 1..Len(text) : text[k] = "," /\ \A j \in 1..(k - 1) : text[j] # ","
BitrateFieldOf(text) ==
    LET rest == SubSeq(text, FirstComma(text) + 2, Len(text))
    IN  SubSeq(rest, 1, FirstComma(rest) - 1)
DurationFieldOf(text) == SubSeq(text, RFind(text, " ") + 1, Len(text))
Probed == metadata.streams # <<>>
ProbedInfo == metadata.streams[1]

\* C6 (as amended): in every figure, the frequency axis has one label
\* per tick, and the last label is the Nyquist frequency in whole kHz,
\* truncated: v with 1000 v <= sampling_rate / 2 < 1000 (v + 1), written
\* without padding.  (Tick positions are in half-Hertz.)
C6_LastFreqLabelTruncated ==
    \A F \in YFigs :
        LET l == Last(F.ylabels)
            nyquist2 == Last(F.yticks)
        IN  /\ Len(F.ylabels) = Len(F.yticks)
            /\ IsDigits(l) /\ NoLeadingZero(l)
            /\ 2000 * ParseInt(l) <= nyquist2
            /\ nyquist2 < 2000 * (ParseInt(l) + 1)

\* C6 (as claimed): the last frequency label is the Nyquist frequency rounded
\* to the nearest multiple of 1000 Hz, in kHz, with one label per tick.
C6_LastFreqLabelRounded ==
    \A F \in YFigs :
        LET l == Last(F.ylabels)
            nyquist2 == Last(F.yticks)
        IN  /\ Len(F.ylabels) = Len(F.yticks)
            /\ IsDigits(l)
            /\ 2000 * ParseInt(l) - 1000 <= nyquist2
            /\ nyquist2 <= 2000 * ParseInt(l) + 1000

\* C6 witness: a figure of an 11025 Hz file, whose last frequency tick
\* (5512.5 Hz) is labelled 5, after the ticks 0 and 5000 Hz.
C6_Witness ==
    \E F \in YFigs :
        /\ F.yticks = <<0, 10000, 11025>>
        /\ F.ylabels = << <<"0">>, <<"5">>, <<"5">> >>

\* A time-axis label reads back as the tick's whole minutes (not wrapped) and
\* whole seconds, each at least two digits wide, zero-filled.
AxisLabelOK(t, sr, l) ==
    LET m == MinutesOf(l)
        s == SecondsOf(l)
    IN  /\ RFind(l, ":") > 0
        /\ IsDigits(m) /\ IsDigits(s)
        /\ Len(s) = 2
        /\ Len(m) >= 2 /\ (Len(m) > 2 => m[1] # "0")
        /\ ParseInt(s) < 60
        /\ (60 * ParseInt(m) + ParseInt(s)) * sr <= t
        /\ t < (60 * ParseInt(m) + ParseInt(s) + 1) * sr

\* A metadata duration reads back as the whole minutes and whole seconds of
\* the duration num/den, neither padded.
DurationOK(num, den, l) ==
    LET m == MinutesOf(l)
        s == SecondsOf(l)
    IN  /\ RFind(l, ":") > 0
        /\ IsDigits(m) /\ IsDigits(s)
        /\ NoLeadingZero(m) /\ NoLeadingZero(s)
        /\ ParseInt(s) < 60
        /\ (60 * ParseInt(m) + ParseInt(s)) * den <= num
        /\ num < (60 * ParseInt(m) + ParseInt(s) + 1) * den

KbDecimalOK(bits, field) ==
    LET n == SubSeq(field, 1, Len(field) - Len(KbPerSec))
        dot == RFind(n, ".")
        whole == SubSeq(n, 1, dot - 1)
        frac == SubSeq(n, dot + 1, Len(n))
    IN  /\ EndsWith(field, KbPerSec)
        /\ dot > 0
        /\ IsDigits(whole) /\ IsDigits(frac)
        /\ NoLeadingZero(whole) /\ NoTrailingZero(frac)
        /\ Len(frac) <= 3
        /\ 1000 * ParseInt(whole) + ParseInt(frac) * Pow10(3 - Len(frac)) = bits

\* C8 (as amended): with a bit_rate the bitrate field is bits per second
\* divided by 1000 as a decimal number with at least one fractional digit
\* (128000 gives 128.0 kb/s, 127999 gives 127.999 kb/s); without one it is
\* the bits-per-sample value (None when that is missing too) and " bit".
C8_BitrateDecimal ==
    Probed =>
        LET f == BitrateFieldOf(metadata.text) IN
        /\ "bit_rate" \in DOMAIN ProbedInfo =>
             /\ KbDecimalOK(ParseInt(ProbedInfo["bit_rate"]), f)
             /\ ProbedInfo["bit_rate"] = <<"1", "2", "8", "0", "0", "0">>
                  => f = <<"1", "2", "8", ".", "0">> \o KbPerSec
             /\ ProbedInfo["bit_rate"] = <<"1", "2", "7", "9", "9", "9">>
                  => f = <<"1", "2", "7", ".", "9", "9", "9">> \o KbPerSec
        /\ "bit_rate" \notin DOMAIN ProbedInfo =>
             /\ EndsWith(f, <<" ", "b", "i", "t">>)
             /\ SubSeq(f, 1, Len(f) - 4) =
                  (IF "bits_per_raw_sample" \in DOMAIN ProbedInfo
                   THEN ProbedInfo["bits_per_raw_sample"] ELSE NoneStr)

\* C8 (as claimed): with a bit_rate the bitrate field is the integer quotient
\* of bits per second by 1000, with no fractional part, and " kb/s".
C8_BitrateIntegerQuotient ==
    (Probed /\ "bit_rate" \in DOMAIN ProbedInfo) =>
        LET f == BitrateFieldOf(metadata.text)
            n == SubSeq(f, 1, Len(f) - Len(KbPerSec))
        IN  /\ EndsWith(f, KbPerSec)
            /\ IsDigits(n)
            /\ ParseInt(n) * 1000 <= ParseInt(ProbedInfo["bit_rate"])
            /\ ParseInt(ProbedInfo["bit_rate"]) < (ParseInt(n) + 1) * 1000

\* C8 witness: a stream of 127999 bit/s reported as 127.999 kb/s.
C8_Witness ==
    /\ Probed
    /\ "bit_rate" \in DOMAIN ProbedInfo
    /\ ProbedInfo["bit_rate"] = <<"1", "2", "7", "9", "9", "9">>
    /\ BitrateFieldOf(metadata.text) = <<"1", "2", "7", ".", "9", "9", "9">> \o KbPerSec

\* The ticks of every figure: strictly increasing, from 0 to the axis
\* maximum (the buffer length in samples, the sampling rate in half-Hertz),
\* and the single tick 0 when the maximum is 0.
TicksOK ==
    /\ \A F \in XFigs :
         /\ StrictlyIncreasing(F.xticks)
         /\ F.xticks[1] = 0
         /\ Last(F.xticks) = obj.audio.len
         /\ obj.audio.len = 0 => F.xticks = <<0>>
    /\ \A F \in YFigs :
         /\ StrictlyIncreasing(F.yticks)
         /\ F.yticks[1] = 0
         /\ Last(F.yticks) = obj.sampling_rate
         /\ obj.sampling_rate = 0 => F.yticks = <<0>>

\* C9 (as amended): for every buffer length >= 0 and sampling rate, the
\* frequency ticks are strictly increasing, start at 0 and end at the axis
\* maximum, the single tick 0 when the rate is 0; so are the time ticks when
\* the rate is above 0, an empty buffer giving the single tick 0; when the
\* rate is 0 the time axis is never set: its computation divides by zero.
C9_TicksAndZeroRate ==
    /\ TicksOK
    /\ err = "ZeroDivisionError" => obj.sampling_rate = 0
    /\ obj.sampling_rate = 0 => XFigs = {}

\* C9 (as claimed): the ticks are as above and no division by zero occurs,
\* the sampling rate 0 included.
C9_TicksNeverDivideByZero ==
    /\ TicksOK
    /\ err # "ZeroDivisionError"

\* C9 witness: the saved figure of an empty buffer at 44100 Hz: the single
\* time tick 0, and the frequency ticks every 5000 Hz up to 22050 Hz.
C9_Witness ==
    /\ obj.audio.len = 0
    /\ \E p \in DOMAIN png :
         /\ png[p].xticks = <<0>>
         /\ png[p].yticks = <<0, 10000, 20000, 30000, 40000, 44100>>

====
